---- MODULE Spec2Model ----
(***************************************************************************)
(* Request admission and execution orchestration of the three reference    *)
(* servers: reference/latentsync/server.py (media-sync, /sync),            *)
(* reference/deepseek/server.py (completion, /v1/chat/completions and      *)
(* /health) and reference/zonos-tts/server.py (text-to-speech, /tts).      *)
(*                                                                         *)
(* Each request is handled by its own thread (werkzeug threaded=True).     *)
(* A step of the model is one access of a request thread, a pool worker    *)
(* or the initialization thread to state that other threads can see; the   *)
(* thread-local code between two such accesses belongs to the same step.   *)
(***************************************************************************)
EXTENDS Integers, Sequences, FiniteSets, TLC

\* ---------------------------------------------------------------- bounds
NSync == 3          \* media-sync requests of a run
NChat == 2          \* completion requests of a run
NTts == 3           \* text-to-speech requests of a run
MaxHealth == 3      \* /health probes of a run

SyncReqs == 1..NSync
ChatReqs == 1..NChat
TtsReqs == 1..NTts

\* ------------------------------------------------------ program constants
MAX_WORKERS == 4    \* ThreadPoolExecutor(max_workers=MAX_WORKERS)
GPU_PERMITS == 2    \* threading.Semaphore(2)

VARIABLES
    \* ---- media-sync service
    futures_timeout_is_builtin, \* whether concurrent.futures.TimeoutError is the
                                \* builtin TimeoutError ("yes": Python >= 3.11) or a
                                \* class of its own ("no": Python <= 3.10): fixed for
                                \* a run, "unobserved" until line 116 first tests it
    gpu_semaphore,              \* the semaphore's counter
    queue,                      \* the executor's work queue (FIFO)
    job,                        \* where the pool is with each request's work item
    future,                     \* state of each request's Future
    done_callbacks,             \* whether cleanup_callback is in the Future's list
    temp_dir,                   \* each request's mkdtemp directory
    output_file,                \* content of output_path (0: no such file)
    cleanup_calls,              \* times shutil.rmtree(temp_dir) was invoked
    syncPc,                     \* position of each /sync request thread
    syncResp,                   \* the response each /sync request returned
    \* ---- completion service
    engine,                     \* the global engine: "None" or "AsyncLLMEngine"
    engine_ready,               \* the threading.Event: whether it is set
    initPc,                     \* position of init_thread in init_engine
    chatPc,                     \* position of each /v1/chat/completions thread
    chatBody,                   \* the body each completion request carried
    chatEntry,                  \* init_thread's position and EngineState when each
                                \* request's handler started
    chatResp,                   \* the response each completion request returned
    healthLog,                  \* the /health responses, in the order issued
    \* ---- text-to-speech service
    ttsPc,                      \* position of each /tts request thread
    ttsTempFile,                \* each request's NamedTemporaryFile(delete=False)
    ttsResp                     \* the response each /tts request returned

syncVars == <<futures_timeout_is_builtin, gpu_semaphore, queue, job, future,
              done_callbacks, temp_dir, output_file, cleanup_calls, syncPc, syncResp>>

chatVars == <<engine, engine_ready, initPc, chatPc, chatBody, chatEntry, chatResp,
              healthLog>>

ttsVars == <<ttsPc, ttsTempFile, ttsResp>>

vars == <<syncVars, chatVars, ttsVars>>

\* -------------------------------------------------------------- responses
\* status: the HTTP status; shape: the form of the body; payload: content of a
\* file body; cause: the path of the handler that produced the response.
NoResp == [status |-> 0, shape |-> "none", payload |-> 0, cause |-> "none"]
Resp(st, sh, pl, c) == [status |-> st, shape |-> sh, payload |-> pl, cause |-> c]

\* jsonify({"error": "<text>"}), status: the body of every error of /sync
FlatError(st, c) == Resp(st, "error_string", 0, c)

\* what the stand-in for scripts.inference writes to --video_out_path
InferenceOutput(r) == r

\* ------------------------------------------------------------- semaphore
\* an acquire that never blocks
SemaphoreNeverBlocks(value) == TRUE

\* Semaphore.acquire() blocks while the counter is 0
SemaphoreFree(value) == value > 0

\* work items a pool thread is executing
InWorker == {"acquire", "holding", "hung", "exit_ok", "exit_err", "invoke"}
BusyWorkers == Cardinality({r \in SyncReqs : job[r] \in InWorker})

\* ---------------------------------------------------------- /sync handler
\* requests are numbered in the order in which their handlers start
Arrived(pc, r) == IF r = 1 THEN TRUE ELSE pc[r - 1] # "idle"

\* lines 79-102: validation, mkdtemp, saving the uploads, executor.submit
SyncReceive(r) ==
    /\ UNCHANGED <<chatVars, ttsVars>>
    /\ syncPc[r] = "idle"
    /\ Arrived(syncPc, r)
    /\ \E hasVideo \in BOOLEAN, hasAudio \in BOOLEAN, saved \in BOOLEAN :
         IF ~(hasVideo /\ hasAudio)
         THEN /\ syncPc' = [syncPc EXCEPT ![r] = "done"]
              /\ syncResp' = [syncResp EXCEPT ![r] = FlatError(400, "validation")]
              /\ UNCHANGED <<temp_dir, queue, job, future>>
         ELSE IF ~saved
         THEN \* video_file.save / audio_file.save raises: except Exception
              /\ syncPc' = [syncPc EXCEPT ![r] = "done"]
              /\ syncResp' = [syncResp EXCEPT ![r] = FlatError(500, "facade")]
              /\ temp_dir' = [temp_dir EXCEPT ![r] = "exists"]
              /\ UNCHANGED <<queue, job, future>>
         ELSE /\ temp_dir' = [temp_dir EXCEPT ![r] = "exists"]
              /\ queue' = Append(queue, r)
              /\ job' = [job EXCEPT ![r] = "queued"]
              /\ future' = [future EXCEPT ![r] = "PENDING"]
              /\ syncPc' = [syncPc EXCEPT ![r] = "addcb"]
              /\ UNCHANGED syncResp
    /\ UNCHANGED <<futures_timeout_is_builtin, gpu_semaphore, done_callbacks,
                   output_file, cleanup_calls>>

FutureDone(f) == f \in {"FINISHED_result", "FINISHED_exception"}

\* lines 105-109: shutil.rmtree(temp_dir, ignore_errors=True)
CleanupTempDir(r) ==
    /\ temp_dir' = [temp_dir EXCEPT ![r] = "removed"]
    /\ output_file' = [output_file EXCEPT ![r] = 0]
    /\ cleanup_calls' = [cleanup_calls EXCEPT ![r] = @ + 1]

\* an add_done_callback that only ever appends to the list
AddDoneCallbackOnlyAppends(f) == FALSE

\* Future.add_done_callback: whether the callback runs at once, in the caller
AddDoneCallbackRunsNow(f) == FutureDone(f)

\* line 111: future.add_done_callback(cleanup_callback)
SyncAddDoneCallback(r) ==
    /\ UNCHANGED <<chatVars, ttsVars>>
    /\ syncPc[r] = "addcb"
    /\ IF AddDoneCallbackRunsNow(future[r])
       THEN /\ CleanupTempDir(r)
            /\ UNCHANGED done_callbacks
       ELSE /\ done_callbacks' = [done_callbacks EXCEPT ![r] = TRUE]
            /\ UNCHANGED <<temp_dir, output_file, cleanup_calls>>
    /\ syncPc' = [syncPc EXCEPT ![r] = "wait"]
    /\ UNCHANGED <<futures_timeout_is_builtin, gpu_semaphore, queue, job, future,
                   syncResp>>

\* line 115, the Future holds a result: future.result returns
SyncResultReturns(r) ==
    /\ UNCHANGED <<chatVars, ttsVars>>
    /\ syncPc[r] = "wait"
    /\ future[r] = "FINISHED_result"
    /\ syncPc' = [syncPc EXCEPT ![r] = "send"]
    /\ UNCHANGED <<futures_timeout_is_builtin, gpu_semaphore, queue, job, future,
                   done_callbacks, temp_dir, output_file, cleanup_calls, syncResp>>

\* line 115, the Future holds an exception: re-raised, lines 128-130
SyncResultRaises(r) ==
    /\ UNCHANGED <<chatVars, ttsVars>>
    /\ syncPc[r] = "wait"
    /\ future[r] = "FINISHED_exception"
    /\ syncPc' = [syncPc EXCEPT ![r] = "done"]
    /\ syncResp' = [syncResp EXCEPT ![r] = FlatError(500, "execution")]
    /\ UNCHANGED <<futures_timeout_is_builtin, gpu_semaphore, queue, job, future,
                   done_callbacks, temp_dir, output_file, cleanup_calls>>

\* lines 116-117 and 128-130: which handler takes the exception future.result
\* raises at the deadline (concurrent.futures.TimeoutError)
TimeoutResponse(isBuiltin) ==
    IF isBuiltin = "yes" THEN FlatError(504, "timeout") ELSE FlatError(500, "timeout")

\* the interpreters the program runs on
Interpreters(observed) == IF observed = "unobserved" THEN {"yes", "no"} ELSE {observed}

\* a handler that cancels the Future at the deadline: a work item still in the
\* queue is dropped
SyncResultTimesOutCancels(r) ==
    /\ UNCHANGED <<chatVars, ttsVars>>
    /\ syncPc[r] = "wait"
    /\ ~FutureDone(future[r])
    /\ syncPc' = [syncPc EXCEPT ![r] = "done"]
    /\ \E isBuiltin \in Interpreters(futures_timeout_is_builtin) :
         /\ futures_timeout_is_builtin' = isBuiltin
         /\ syncResp' = [syncResp EXCEPT ![r] = TimeoutResponse(isBuiltin)]
    /\ IF future[r] = "PENDING"
       THEN /\ future' = [future EXCEPT ![r] = "CANCELLED"]
            /\ queue' = SelectSeq(queue, LAMBDA q : q # r)
            /\ job' = [job EXCEPT ![r] = "none"]
       ELSE UNCHANGED <<future, queue, job>>
    /\ UNCHANGED <<gpu_semaphore, done_callbacks, temp_dir, output_file, cleanup_calls>>

\* line 115, 600 s passed and the Future is not done
SyncResultTimesOut(r) ==
    /\ UNCHANGED <<chatVars, ttsVars>>
    /\ syncPc[r] = "wait"
    /\ ~FutureDone(future[r])
    /\ syncPc' = [syncPc EXCEPT ![r] = "done"]
    /\ \E isBuiltin \in Interpreters(futures_timeout_is_builtin) :
         /\ futures_timeout_is_builtin' = isBuiltin
         /\ syncResp' = [syncResp EXCEPT ![r] = TimeoutResponse(isBuiltin)]
    /\ UNCHANGED <<gpu_semaphore, queue, job, future,
                   done_callbacks, temp_dir, output_file, cleanup_calls>>

\* lines 121-126: send_file(output_path) opens the file; lines 128-130 otherwise
SyncSendFile(r) ==
    /\ UNCHANGED <<chatVars, ttsVars>>
    /\ syncPc[r] = "send"
    /\ syncPc' = [syncPc EXCEPT ![r] = "done"]
    /\ syncResp' = [syncResp EXCEPT ![r] =
                      IF output_file[r] # 0
                      THEN Resp(200, "file", output_file[r], "success")
                      ELSE FlatError(500, "facade")]
    /\ UNCHANGED <<futures_timeout_is_builtin, gpu_semaphore, queue, job, future,
                   done_callbacks, temp_dir, output_file, cleanup_calls>>

\* ------------------------------------------------------------ pool worker
\* a pool thread takes the head of the work queue and marks the Future running
WorkerTake(r) ==
    /\ UNCHANGED <<chatVars, ttsVars>>
    /\ queue # <<>>
    /\ Head(queue) = r
    /\ BusyWorkers < MAX_WORKERS
    /\ queue' = Tail(queue)
    /\ job' = [job EXCEPT ![r] = "acquire"]
    /\ future' = [future EXCEPT ![r] = "RUNNING"]
    /\ UNCHANGED <<futures_timeout_is_builtin, gpu_semaphore, done_callbacks,
                   temp_dir, output_file, cleanup_calls, syncPc, syncResp>>

\* line 38: with gpu_semaphore (entry)
ProcessVideoAcquire(r) ==
    /\ UNCHANGED <<chatVars, ttsVars>>
    /\ job[r] = "acquire"
    /\ SemaphoreFree(gpu_semaphore)
    /\ gpu_semaphore' = gpu_semaphore - 1
    /\ job' = [job EXCEPT ![r] = "holding"]
    /\ UNCHANGED <<futures_timeout_is_builtin, queue, future, done_callbacks,
                   temp_dir, output_file, cleanup_calls, syncPc, syncResp>>

\* lines 39-70, return code 0: the output is written, the with block is left
ProcessVideoReturns(r) ==
    /\ UNCHANGED <<chatVars, ttsVars>>
    /\ job[r] = "holding"
    /\ gpu_semaphore' = gpu_semaphore + 1
    /\ output_file' = [output_file EXCEPT ![r] = InferenceOutput(r)]
    /\ job' = [job EXCEPT ![r] = "exit_ok"]
    /\ UNCHANGED <<futures_timeout_is_builtin, queue, future, done_callbacks,
                   temp_dir, cleanup_calls, syncPc, syncResp>>

\* a process_video that releases only on the normal path (no with block)
ProcessVideoRaisesKeepsPermit(r) ==
    /\ UNCHANGED <<chatVars, ttsVars>>
    /\ job[r] = "holding"
    /\ job' = [job EXCEPT ![r] = "exit_err"]
    /\ UNCHANGED <<futures_timeout_is_builtin, gpu_semaphore, queue, future,
                   done_callbacks, temp_dir, output_file, cleanup_calls, syncPc,
                   syncResp>>

\* lines 39-70, an exception (line 66 or any other): the with block is left
ProcessVideoRaises(r) ==
    /\ UNCHANGED <<chatVars, ttsVars>>
    /\ job[r] = "holding"
    /\ gpu_semaphore' = gpu_semaphore + 1
    /\ job' = [job EXCEPT ![r] = "exit_err"]
    /\ UNCHANGED <<futures_timeout_is_builtin, queue, future, done_callbacks,
                   temp_dir, output_file, cleanup_calls, syncPc, syncResp>>

\* line 63: process.communicate() never returns
ProcessVideoHangs(r) ==
    /\ UNCHANGED <<chatVars, ttsVars>>
    /\ job[r] = "holding"
    /\ job' = [job EXCEPT ![r] = "hung"]
    /\ UNCHANGED <<futures_timeout_is_builtin, gpu_semaphore, queue, future,
                   done_callbacks, temp_dir, output_file, cleanup_calls, syncPc,
                   syncResp>>

\* a pool thread that the job's exception kills: no outcome is stored and the
\* thread is lost
WorkerDiesOnException(r) ==
    /\ UNCHANGED <<chatVars, ttsVars>>
    /\ job[r] \in {"exit_ok", "exit_err"}
    /\ future' = [future EXCEPT ![r] =
                    IF job[r] = "exit_ok" THEN "FINISHED_result" ELSE @]
    /\ job' = [job EXCEPT ![r] = IF job[r] = "exit_ok" THEN "invoke" ELSE "hung"]
    /\ UNCHANGED <<futures_timeout_is_builtin, gpu_semaphore, queue, done_callbacks,
                   temp_dir, output_file, cleanup_calls, syncPc, syncResp>>

\* the pool thread stores the outcome in the Future (set_result / set_exception)
WorkerSetsOutcome(r) ==
    /\ UNCHANGED <<chatVars, ttsVars>>
    /\ job[r] \in {"exit_ok", "exit_err"}
    /\ future' = [future EXCEPT ![r] =
                    IF job[r] = "exit_ok" THEN "FINISHED_result"
                    ELSE "FINISHED_exception"]
    /\ job' = [job EXCEPT ![r] = "invoke"]
    /\ UNCHANGED <<futures_timeout_is_builtin, gpu_semaphore, queue, done_callbacks,
                   temp_dir, output_file, cleanup_calls, syncPc, syncResp>>

\* the pool thread then runs the Future's done callbacks (cleanup_callback)
WorkerInvokesCallbacks(r) ==
    /\ UNCHANGED <<chatVars, ttsVars>>
    /\ job[r] = "invoke"
    /\ IF done_callbacks[r]
       THEN CleanupTempDir(r)
       ELSE UNCHANGED <<temp_dir, output_file, cleanup_calls>>
    /\ job' = [job EXCEPT ![r] = "complete"]
    /\ UNCHANGED <<futures_timeout_is_builtin, gpu_semaphore, queue, future,
                   done_callbacks, syncPc, syncResp>>


\* ------------------------------------------------------ completion service
\* EngineState of the readiness gate, from init_thread's position and the Event
EngineState(pc, ready) ==
    IF ready THEN "Ready"
    ELSE IF pc = "start" THEN "Uninitialized"
    ELSE "Initializing"

\* lines 24-34: init_thread runs init_engine
\* an init_engine that signals readiness first and builds the engine afterwards
InitEngineStartsReady ==
    /\ UNCHANGED <<syncVars, ttsVars>>
    /\ initPc = "start"
    /\ initPc' = "creating"
    /\ engine_ready' = TRUE
    /\ UNCHANGED <<engine, chatPc, chatBody, chatEntry, chatResp, healthLog>>

InitEngineStarts ==
    /\ UNCHANGED <<syncVars, ttsVars>>
    /\ initPc = "start"
    /\ initPc' = "creating"
    /\ UNCHANGED <<engine, engine_ready, chatPc, chatBody, chatEntry, chatResp, healthLog>>

\* line 37: engine = AsyncLLMEngine.from_engine_args(engine_args)
InitEngineCreates ==
    /\ UNCHANGED <<syncVars, ttsVars>>
    /\ initPc = "creating"
    /\ engine' = "AsyncLLMEngine"
    /\ initPc' = "created"
    /\ UNCHANGED <<engine_ready, chatPc, chatBody, chatEntry, chatResp, healthLog>>

\* line 37 raises: the exception ends init_thread, a daemon thread, and nothing else
InitEngineRaises ==
    /\ UNCHANGED <<syncVars, ttsVars>>
    /\ initPc = "creating"
    /\ initPc' = "failed"
    /\ UNCHANGED <<engine, engine_ready, chatPc, chatBody, chatEntry, chatResp, healthLog>>

\* line 39: engine_ready.set()
InitEngineSetsReady ==
    /\ UNCHANGED <<syncVars, ttsVars>>
    /\ initPc = "created"
    /\ engine_ready' = TRUE
    /\ initPc' = "done"
    /\ UNCHANGED <<engine, chatPc, chatBody, chatEntry, chatResp, healthLog>>

\* a health_check that does not look at the Event, as in the other two servers
HealthAlwaysHealthy(ready) == 200

\* lines 58-61: the status health_check answers with
HealthStatus(ready) == IF ready THEN 200 ELSE 503

\* lines 56-61: GET /health
HealthCheck ==
    /\ UNCHANGED <<syncVars, ttsVars>>
    /\ Len(healthLog) < MaxHealth
    /\ healthLog' = Append(healthLog, [status |-> HealthStatus(engine_ready),
                                       init |-> initPc,
                                       state |-> EngineState(initPc, engine_ready)])
    /\ UNCHANGED <<engine, engine_ready, initPc, chatPc, chatBody, chatEntry, chatResp>>

\* the bodies a completion request can carry: not JSON (get_json(silent=True)
\* gives None), the empty object, JSON that is no object ([1], "x", 5), an
\* object without messages, with an empty messages list, with messages
ChatBodies == {"invalid_json", "empty_object", "non_object", "no_messages",
               "empty_messages", "messages"}

\* a handler without the readiness check
GateAlwaysOpen(ready) == TRUE

\* lines 82-88: the readiness check
PassesReadinessGate(ready) == ready

\* lines 92-99: parsing and validation; data.get on JSON that is no object
\* raises AttributeError, which line 121 catches
Validate(body) ==
    CASE body \in {"invalid_json", "empty_object"} -> "invalid_json"
      [] body = "non_object" -> "raises"
      [] body \in {"no_messages", "empty_messages"} -> "no_messages"
      [] OTHER -> "valid"

\* lines 80-111: what chat_completions does with a request before generating
ChatAdmission(ready, body) ==
    IF ~PassesReadinessGate(ready) THEN Resp(503, "message_type", 0, "not_ready")
    ELSE CASE Validate(body) \in {"invalid_json", "no_messages"} ->
                 Resp(400, "message_only", 0, "validation")
           [] Validate(body) = "raises" -> Resp(500, "message_type", 0, "validation")
           [] OTHER -> NoResp

\* lines 80-117: the handler up to the call of engine.generate
ChatReceive(r) ==
    /\ UNCHANGED <<syncVars, ttsVars>>
    /\ chatPc[r] = "idle"
    /\ Arrived(chatPc, r)
    /\ \E body \in ChatBodies :
         /\ chatBody' = [chatBody EXCEPT ![r] = body]
         /\ chatEntry' = [chatEntry EXCEPT ![r] =
                             [init |-> initPc, state |-> EngineState(initPc, engine_ready)]]
         /\ LET a == ChatAdmission(engine_ready, body) IN
            IF a = NoResp
            THEN /\ chatPc' = [chatPc EXCEPT ![r] = "generating"]
                 /\ UNCHANGED chatResp
            ELSE /\ chatPc' = [chatPc EXCEPT ![r] = "done"]
                 /\ chatResp' = [chatResp EXCEPT ![r] = a]
    /\ UNCHANGED <<engine, engine_ready, initPc, healthLog>>

\* lines 115-119 and 133-171: generate_completion returns the response
ChatGenerateReturns(r) ==
    /\ UNCHANGED <<syncVars, ttsVars>>
    /\ chatPc[r] = "generating"
    /\ chatPc' = [chatPc EXCEPT ![r] = "done"]
    /\ chatResp' = [chatResp EXCEPT ![r] = Resp(200, "completion", r, "success")]
    /\ UNCHANGED <<engine, engine_ready, initPc, chatBody, chatEntry, healthLog>>

\* lines 172-174 and 121-127: generate_completion raises
ChatGenerateRaises(r) ==
    /\ UNCHANGED <<syncVars, ttsVars>>
    /\ chatPc[r] = "generating"
    /\ chatPc' = [chatPc EXCEPT ![r] = "done"]
    /\ chatResp' = [chatResp EXCEPT ![r] = Resp(500, "message_type", 0, "execution")]
    /\ UNCHANGED <<engine, engine_ready, initPc, chatBody, chatEntry, healthLog>>

\* line 135: engine.generate never completes; run_until_complete has no deadline
ChatGenerateHangs(r) ==
    /\ UNCHANGED <<syncVars, ttsVars>>
    /\ chatPc[r] = "generating"
    /\ chatPc' = [chatPc EXCEPT ![r] = "hung"]
    /\ UNCHANGED <<engine, engine_ready, initPc, chatBody, chatEntry, chatResp, healthLog>>

\* -------------------------------------------------- text-to-speech service
\* the bodies a /tts request can carry: no JSON (request.get_json() raises),
\* JSON whose text is missing or blank, JSON with text
TtsBodies == {"bad_json", "blank_text", "text"}

\* lines 36-45: parsing, validation, NamedTemporaryFile(suffix='.wav', delete=False)
TtsReceive(r) ==
    /\ UNCHANGED <<syncVars, chatVars>>
    /\ ttsPc[r] = "idle"
    /\ Arrived(ttsPc, r)
    /\ \E body \in TtsBodies :
         CASE body = "bad_json" ->
                /\ ttsPc' = [ttsPc EXCEPT ![r] = "done"]
                /\ ttsResp' = [ttsResp EXCEPT ![r] = FlatError(500, "validation")]
                /\ UNCHANGED ttsTempFile
           [] body = "blank_text" ->
                /\ ttsPc' = [ttsPc EXCEPT ![r] = "done"]
                /\ ttsResp' = [ttsResp EXCEPT ![r] = FlatError(400, "validation")]
                /\ UNCHANGED ttsTempFile
           [] OTHER ->
                /\ ttsPc' = [ttsPc EXCEPT ![r] = "generating"]
                /\ ttsTempFile' = [ttsTempFile EXCEPT ![r] = "exists"]
                /\ UNCHANGED ttsResp

\* lines 48-61: model.generate, decode, torchaudio.save, send_file
TtsGenerateReturns(r) ==
    /\ UNCHANGED <<syncVars, chatVars>>
    /\ ttsPc[r] = "generating"
    /\ ttsPc' = [ttsPc EXCEPT ![r] = "done"]
    /\ ttsResp' = [ttsResp EXCEPT ![r] = Resp(200, "file", r, "success")]
    /\ UNCHANGED ttsTempFile

\* lines 48-64: an exception in the generation
TtsGenerateRaises(r) ==
    /\ UNCHANGED <<syncVars, chatVars>>
    /\ ttsPc[r] = "generating"
    /\ ttsPc' = [ttsPc EXCEPT ![r] = "done"]
    /\ ttsResp' = [ttsResp EXCEPT ![r] = FlatError(500, "execution")]
    /\ UNCHANGED ttsTempFile

\* line 56: model.generate never returns; the handler has no deadline
TtsGenerateHangs(r) ==
    /\ UNCHANGED <<syncVars, chatVars>>
    /\ ttsPc[r] = "generating"
    /\ ttsPc' = [ttsPc EXCEPT ![r] = "hung"]
    /\ UNCHANGED <<ttsTempFile, ttsResp>>

\* ------------------------------------------------------------------ specs
SyncInit ==
    /\ futures_timeout_is_builtin = "unobserved"
    /\ gpu_semaphore = GPU_PERMITS
    /\ queue = <<>>
    /\ job = [r \in SyncReqs |-> "none"]
    /\ future = [r \in SyncReqs |-> "none"]
    /\ done_callbacks = [r \in SyncReqs |-> FALSE]
    /\ temp_dir = [r \in SyncReqs |-> "absent"]
    /\ output_file = [r \in SyncReqs |-> 0]
    /\ cleanup_calls = [r \in SyncReqs |-> 0]
    /\ syncPc = [r \in SyncReqs |-> "idle"]
    /\ syncResp = [r \in SyncReqs |-> NoResp]

ChatInit ==
    /\ engine = "None"
    /\ engine_ready = FALSE
    /\ initPc = "start"
    /\ chatPc = [r \in ChatReqs |-> "idle"]
    /\ chatBody = [r \in ChatReqs |-> "none"]
    /\ chatEntry = [r \in ChatReqs |-> [init |-> "none", state |-> "none"]]
    /\ chatResp = [r \in ChatReqs |-> NoResp]
    /\ healthLog = <<>>

TtsInit ==
    /\ ttsPc = [r \in TtsReqs |-> "idle"]
    /\ ttsTempFile = [r \in TtsReqs |-> "absent"]
    /\ ttsResp = [r \in TtsReqs |-> NoResp]

Init == SyncInit /\ ChatInit /\ TtsInit

SyncRequestStep(r) ==
    \/ SyncReceive(r)
    \/ SyncAddDoneCallback(r)
    \/ SyncResultReturns(r)
    \/ SyncResultRaises(r)
    \/ SyncResultTimesOut(r)
    \/ SyncSendFile(r)

SyncWorkerStep(r) ==
    \/ WorkerTake(r)
    \/ ProcessVideoAcquire(r)
    \/ ProcessVideoReturns(r)
    \/ ProcessVideoRaises(r)
    \/ WorkerSetsOutcome(r)
    \/ WorkerInvokesCallbacks(r)

InitThreadStep ==
    \/ InitEngineStarts
    \/ InitEngineCreates
    \/ InitEngineRaises
    \/ InitEngineSetsReady

ChatRequestStep(r) ==
    \/ ChatReceive(r)
    \/ ChatGenerateReturns(r)
    \/ ChatGenerateRaises(r)

TtsRequestStep(r) ==
    \/ TtsReceive(r)
    \/ TtsGenerateReturns(r)
    \/ TtsGenerateRaises(r)

\* the media-sync server
SyncNext == \E r \in SyncReqs : SyncRequestStep(r) \/ SyncWorkerStep(r)

\* the completion server
ChatNext ==
    \/ InitThreadStep
    \/ HealthCheck
    \/ \E r \in ChatReqs : ChatRequestStep(r)

\* the text-to-speech server
TtsNext == \E r \in TtsReqs : TtsRequestStep(r)

\* the three servers are separate processes that share no state
Next == SyncNext
Spec == Init /\ [][Next]_vars
ChatSpec == Init /\ [][ChatNext]_vars
TtsSpec == Init /\ [][TtsNext]_vars

\* the completion server with a backend whose operations may never complete; every
\* thread that can take a step eventually takes it
ChatHangNext ==
    \/ ChatNext
    \/ \E r \in ChatReqs : ChatGenerateHangs(r)

ChatFairness ==
    /\ WF_vars(InitThreadStep)
    /\ \A r \in ChatReqs : WF_vars(ChatGenerateReturns(r) \/ ChatGenerateRaises(r))

FairChatSpec == Init /\ [][ChatHangNext]_vars /\ ChatFairness

\* the media-sync server when every thread that can take a step eventually takes
\* it: with a backend whose operations all end, and with one whose may not
SyncThreadStep(r) ==
    \/ SyncAddDoneCallback(r)
    \/ SyncResultReturns(r)
    \/ SyncResultRaises(r)
    \/ SyncResultTimesOut(r)
    \/ SyncSendFile(r)

SyncFairness ==
    \A r \in SyncReqs : WF_vars(SyncThreadStep(r)) /\ WF_vars(SyncWorkerStep(r))

SyncHangNext ==
    \/ SyncNext
    \/ \E r \in SyncReqs : ProcessVideoHangs(r)

FairSyncSpec == Init /\ [][SyncNext]_vars /\ SyncFairness
FairSyncHangSpec == Init /\ [][SyncHangNext]_vars /\ SyncFairness

\* lines 132-135, threaded=True: every connection gets a request thread of its
\* own, so a thread that has returned, and whose work item the pool is done with,
\* makes room for the thread of a later request
SyncNextConnection(r) ==
    /\ UNCHANGED <<chatVars, ttsVars>>
    /\ syncPc[r] = "done"
    /\ job[r] \in {"none", "complete"}
    /\ syncPc' = [syncPc EXCEPT ![r] = "idle"]
    /\ job' = [job EXCEPT ![r] = "none"]
    /\ future' = [future EXCEPT ![r] = "none"]
    /\ done_callbacks' = [done_callbacks EXCEPT ![r] = FALSE]
    /\ temp_dir' = [temp_dir EXCEPT ![r] = "absent"]
    /\ output_file' = [output_file EXCEPT ![r] = 0]
    /\ cleanup_calls' = [cleanup_calls EXCEPT ![r] = 0]
    /\ syncResp' = [syncResp EXCEPT ![r] = NoResp]
    /\ UNCHANGED <<futures_timeout_is_builtin, gpu_semaphore, queue>>

\* the media-sync server under a stream of requests without end, NSync of them in
\* flight at a time
SyncStreamNext ==
    \/ SyncNext
    \/ \E r \in SyncReqs : SyncNextConnection(r)

FairSyncStreamSpec == Init /\ [][SyncStreamNext]_vars /\ SyncFairness

\* ----------------------------------------------------------------- claims
\* executions of process_video that acquired gpu_semaphore and have not released it
HoldingPermit == {r \in SyncReqs : job[r] \in {"holding", "hung"}}

\* C1: in every reachable state of the media-sync service, whatever the number of
\* submitted /sync jobs, at most M = 2 executions of process_video have acquired
\* gpu_semaphore and not yet released it.
C1_PermitsBounded == Cardinality(HoldingPermit) <= GPU_PERMITS

\* two jobs hold the permits while a third is blocked in the acquire
C1_Witness ==
    /\ Cardinality(HoldingPermit) = GPU_PERMITS
    /\ \E r \in SyncReqs : job[r] = "acquire"

\* the request's wait ended at the deadline
TimedOut(r) == syncResp[r].cause = "timeout"

\* C2: for every media-sync job that reaches a terminal state, rmtree(temp_dir) is
\* invoked exactly once under every interleaving of worker and request thread:
\* never twice, and once the worker has run the Future's callbacks and the request
\* thread has passed add_done_callback, not zero times; also when the request timed
\* out before the job finished or the job finished before the callback was added.
C2_CleanupExactlyOnce ==
    \A r \in SyncReqs :
        /\ cleanup_calls[r] <= 1
        /\ (job[r] = "complete" /\ syncPc[r] # "addcb") => cleanup_calls[r] = 1

\* one job ended after its request had timed out, another before its request
\* added the callback; each was cleaned up
C2_Witness ==
    \E a, b \in SyncReqs :
        /\ TimedOut(a) /\ job[a] = "complete" /\ cleanup_calls[a] = 1
        /\ job[b] = "complete" /\ ~done_callbacks[b] /\ syncPc[b] = "done"
        /\ cleanup_calls[b] = 1

\* C3: a media-sync job that succeeds before the deadline gives its caller a 200
\* response whose payload is exactly the output the job wrote, under every
\* interleaving; the temp_dir is never removed before the handler has read the
\* output.
C3_SuccessReturnsOutput ==
    \A r \in SyncReqs :
        /\ (syncPc[r] = "done" /\ future[r] = "FINISHED_result" /\ ~TimedOut(r))
             => syncResp[r] = Resp(200, "file", InferenceOutput(r), "success")
        /\ (syncPc[r] \in {"addcb", "wait", "send"}) => temp_dir[r] # "removed"

\* C4: a request whose job is still pending or running at the deadline receives
\* the Timeout condition (504) then, without waiting for the job; the job still
\* ends by itself later and its temp_dir is removed at that time.
C4_TimeoutCondition ==
    \A r \in SyncReqs :
        TimedOut(r) =>
            /\ syncResp[r].status = 504
            /\ (job[r] = "complete" => cleanup_calls[r] = 1)

\* the request got the deadline's response while its job was not finished
C4_AnsweredBeforeJobEnds ==
    \E r \in SyncReqs : TimedOut(r) /\ job[r] \in {"queued", "acquire", "holding"}

\* with a backend whose operations end, the job of a request that timed out still
\* ends and its temp_dir is removed then
TimedOutJobStillEnds ==
    \A r \in SyncReqs : TimedOut(r) ~> (job[r] = "complete" /\ cleanup_calls[r] = 1)

\* every /sync request that started is answered, whatever the backend does
SyncRequestAnswered ==
    \A r \in SyncReqs : (syncPc[r] # "idle") ~> (syncPc[r] = "done")

StateRank(st) == CASE st = "Uninitialized" -> 0 [] st = "Initializing" -> 1 [] OTHER -> 2

HealthLogOk ==
    \A i \in DOMAIN healthLog :
        /\ healthLog[i].status = IF healthLog[i].state = "Ready" THEN 200 ELSE 503
        /\ \A j \in DOMAIN healthLog :
             (i < j /\ healthLog[i].status = 200) => healthLog[j].status = 200

\* C5: the engine state only moves forward, Uninitialized -> Initializing -> Ready,
\* one stage at a time, and engine_ready is never cleared; /health answers 503 to
\* every probe issued before engine_ready is set and 200 to every probe issued
\* after, and never 503 after a 200.
C5_ReadinessMonotone ==
    /\ []HealthLogOk
    /\ [][/\ engine_ready => engine_ready'
          /\ StateRank(EngineState(initPc', engine_ready'))
               - StateRank(EngineState(initPc, engine_ready)) \in {0, 1}]_vars

\* probes answered 503, 503 and 200, in the three engine states
C5_Witness ==
    /\ Len(healthLog) = 3
    /\ healthLog[1] = [status |-> 503, init |-> "start", state |-> "Uninitialized"]
    /\ healthLog[2] = [status |-> 503, init |-> "creating", state |-> "Initializing"]
    /\ healthLog[3] = [status |-> 200, init |-> "done", state |-> "Ready"]

\* C6: a completion request handled while the engine is not Ready is answered at
\* once with 503 NotReady: it never reaches engine.generate and never waits for
\* readiness, whatever its body.
C6_NotReadyRejected ==
    \A r \in ChatReqs :
        (chatPc[r] # "idle" /\ chatEntry[r].state # "Ready")
            => /\ chatPc[r] = "done"
               /\ chatResp[r] = Resp(503, "message_type", 0, "not_ready")

\* a request with valid messages was refused during initialization, and one that
\* came once Ready is generating
C6_Witness ==
    \E a, b \in ChatReqs :
        /\ chatEntry[a].state = "Initializing" /\ chatBody[a] = "messages"
        /\ chatResp[a].status = 503
        /\ chatEntry[b].state = "Ready" /\ chatPc[b] = "generating"

\* C7: every request accepted by one of the three endpoints eventually receives a
\* response, even when the backend operation it started never terminates.
C7_EveryRequestAnswered ==
    /\ \A r \in ChatReqs : (chatPc[r] # "idle") ~> (chatPc[r] = "done")
    /\ \A r \in SyncReqs : (syncPc[r] # "idle") ~> (syncPc[r] = "done")
    /\ \A r \in TtsReqs : (ttsPc[r] # "idle") ~> (ttsPc[r] = "done")

\* C8: a failure of init_engine is fatal to the process: no request is handled
\* after initialization has ended without the engine being Ready.
C8_InitFailureIsFatal ==
    /\ \A r \in ChatReqs : chatEntry[r].init # "failed"
    /\ \A i \in DOMAIN healthLog : healthLog[i].init # "failed"

\* bodies whose messages list is empty or missing
NoMessages == ChatBodies \ {"messages"}

\* C9: every completion request whose messages list is empty or missing is answered
\* 400, whatever the engine state, without reaching engine.generate; a media-sync
\* request missing a file part is answered 400 before mkdtemp and executor.submit.
C9_MissingInputIs400 ==
    /\ \A r \in ChatReqs :
         (chatPc[r] # "idle" /\ chatBody[r] \in NoMessages)
            => chatPc[r] = "done" /\ chatResp[r].status = 400
    /\ \A r \in SyncReqs :
         syncResp[r].cause = "validation"
            => /\ syncResp[r].status = 400
               /\ temp_dir[r] = "absent" /\ job[r] = "none"

\* the status of each error class
StatusOfClass(c) ==
    CASE c = "validation" -> 400
      [] c = "not_ready" -> 503
      [] c = "timeout" -> 504
      [] OTHER -> 500

IsEnvelope(resp) ==
    resp.status \in {0, 200}
        \/ (resp.shape = "message_type" /\ resp.status = StatusOfClass(resp.cause))

\* C10: every failure path of every endpoint returns the envelope
\* {"error": {"message": string, "type": string}} with the status of its error
\* class: 400 validation, 503 NotReady, 500 failure in the job, 504 timeout.
C10_ErrorEnvelope ==
    /\ \A r \in SyncReqs : IsEnvelope(syncResp[r])
    /\ \A r \in ChatReqs : IsEnvelope(chatResp[r])
    /\ \A r \in TtsReqs : IsEnvelope(ttsResp[r])

\* the request has returned and no pool thread will touch its work item again
SyncSettled(r) == syncPc[r] = "done" /\ job[r] \in {"none", "complete"}

\* C11: every Workspace that is created is released exactly once on every exit
\* path of its request: the temp_dir of /sync also when saving an upload fails
\* before cleanup_callback is registered, and the temporary output file of /tts
\* on success and on failure.
C11_WorkspaceReleased ==
    /\ \A r \in SyncReqs :
         (SyncSettled(r) /\ temp_dir[r] # "absent")
            => temp_dir[r] = "removed" /\ cleanup_calls[r] = 1
    /\ \A r \in TtsReqs : ttsPc[r] = "done" => ttsTempFile[r] # "exists"

\* C12: each acquire of gpu_semaphore is paired with exactly one release, on the
\* normal exit of process_video and on an exception alike: the free permits are
\* always M minus the executions inside the with block, so M = 2 whenever no job
\* is inside process_video.
C12_PermitsPaired ==
    /\ gpu_semaphore = GPU_PERMITS - Cardinality(HoldingPermit)
    /\ (HoldingPermit = {}) => gpu_semaphore = GPU_PERMITS

\* one job left process_video by an exception, one by a return, none is inside,
\* and both permits are back
C12_Witness ==
    /\ gpu_semaphore = GPU_PERMITS
    /\ \E a, b \in SyncReqs :
         /\ future[a] = "FINISHED_exception"
         /\ future[b] = "FINISHED_result"

\* the job has entered the with block of process_video
HasAcquired(r) == job[r] \in {"holding", "hung", "exit_ok", "exit_err", "invoke", "complete"}

\* C13: permits are granted in the order of submission: of two jobs, the one
\* submitted later never acquires gpu_semaphore while the earlier one has not.
C13_PermitsInAdmissionOrder ==
    \A a, b \in SyncReqs :
        (a < b /\ job[a] \in {"queued", "acquire"}) => ~HasAcquired(b)

FailureRecorded ==
    \A r \in SyncReqs :
        /\ job[r] \in {"invoke", "complete"} => FutureDone(future[r])
        /\ (syncPc[r] = "done" /\ future[r] = "FINISHED_exception" /\ ~TimedOut(r))
             => syncResp[r] = FlatError(500, "execution")

C15_TimeoutLeavesJob ==
    /\ \A r \in SyncReqs :
         TimedOut(r) =>
            /\ job[r] \in {"queued", "acquire", "holding", "hung", "exit_ok",
                           "exit_err", "invoke", "complete"}
            /\ future[r] \in {"PENDING", "RUNNING", "FINISHED_result",
                              "FINISHED_exception"}
            /\ (job[r] = "queued") = (\E i \in DOMAIN queue : queue[i] = r)
            /\ (future[r] = "PENDING") = (job[r] = "queued")
            /\ done_callbacks[r]
    /\ Cardinality({r \in SyncReqs : TimedOut(r) /\ job[r] = "holding"})
          <= GPU_PERMITS - gpu_semaphore

\* after their handlers timed out, one job waits in the queue, one is inside
\* process_video and one has ended with a result
C15_Witness ==
    \E a, b, c \in SyncReqs :
        /\ TimedOut(a) /\ job[a] = "complete" /\ future[a] = "FINISHED_result"
        /\ TimedOut(b) /\ job[b] = "holding"
        /\ TimedOut(c) /\ job[c] = "queued"

\* C17: in the completion server, whenever engine_ready is set the global engine
\* has been assigned, and every request that passed the readiness check and is
\* in (or through) generate_completion found the engine assigned.
C17_ReadyImpliesEngine ==
    /\ engine_ready => engine = "AsyncLLMEngine"
    /\ \A r \in ChatReqs :
         chatPc[r] \in {"generating", "hung"} => engine = "AsyncLLMEngine"

\* the Event is set and a request that passed the gate is using the engine
C17_Witness ==
    /\ engine_ready
    /\ \E r \in ChatReqs : chatPc[r] = "generating"

ChatInProgress == {r \in ChatReqs : chatPc[r] = "generating"}
TtsInProgress == {r \in TtsReqs : ttsPc[r] = "generating"}

\* C18: in the completion server and in the text-to-speech server the number of
\* engine.generate / model.generate calls in progress is capped below the number
\* of requests being handled: at least one request is kept out of its heavy
\* operation, as the two permits do in the media-sync server.
C18_HeavyOpsBounded ==
    /\ Cardinality(TtsInProgress) <= GPU_PERMITS
    /\ Cardinality(TtsInProgress) < NTts
    /\ Cardinality(ChatInProgress) < NChat

\* C16: with two permits and three jobs submitted together, two jobs hold the
\* permits while the third waits and starts only after one of them released; and,
\* the heavy operations all ending, every submitted job eventually acquires a
\* permit: none waits forever, whatever jobs are submitted after it.
C16_EveryJobAcquires ==
    \A r \in SyncReqs : (job[r] \in {"queued", "acquire"}) ~> (job[r] = "holding")

\* when no request follows the NSync in flight, every job gets its permit and ends
JobsOfOneBurstEnd ==
    \A r \in SyncReqs : (job[r] \in {"queued", "acquire"}) ~> (job[r] = "complete")

====
